---- MODULE Spec2Model ----
(***************************************************************************)
(* A model of ts-lib-value-objects: the smart-constructor factories        *)
(* (makeRefinedTypeFactory, makeCoercedTypeFactory and the factory with a  *)
(* formatter), the wrapper base classes (ValueObject, EntityObject) and    *)
(* the refined and coerced classes (RefinedType, RefinedNumber,            *)
(* RefinedString, CoercedNumber).                                          *)
(*                                                                         *)
(* The library's callers supply the validation rule and the error          *)
(* handlers, so the model draws them from small sets: a rule is the set of *)
(* values it accepts, a handler either raises its own failure or returns a *)
(* substitute value.  TypeScript's types are erased at runtime, so a       *)
(* handler typed `never` can still return.                                 *)
(***************************************************************************)
EXTENDS Integers, Sequences, FiniteSets

\* ------------------------------------------------------------------ bounds

\* primitive values are 0..MaxValue
MaxValue == 2
\* record fields hold 0..MaxField
MaxField == 1
\* the heap holds NumRecords records, each with its own address
NumRecords == 2
\* operations on one wrapper object before it is dropped
MaxOps == 3

Values == 0..MaxValue
\* the handler functions of the tests: the factory's default handler and a
\* caller's local one
HandlerIds == {"DEFAULT ERROR HANDLER", "LOCAL ERROR HANDLER"}
FieldValues == 0..MaxField
Addrs == 1..NumRecords

\* ------------------------------------------------------- callers' handlers

\* `undefined`: the optional onError parameter left out
Undefined == [kind |-> "undefined", id |-> "none", sub |-> -1]

\* handlers that throw an Error of their own
RaisingHandlers == [kind : {"raise"}, id : HandlerIds, sub : {-1}]

\* handlers that return a value instead of throwing
ReturningHandlers == [kind : {"return"}, id : HandlerIds, sub : Values]

Handlers == RaisingHandlers \cup ReturningHandlers

NoFailure == [src |-> "none", id |-> "none", thrown |-> -1]

\* the result of running a piece of code: it returns `value` or throws `failure`
Returned(v) == [kind |-> "return", value |-> v, failure |-> NoFailure]
Raised(f) == [kind |-> "raise", value |-> -1, failure |-> f]
NoOutcome == [kind |-> "none", value |-> -1, failure |-> NoFailure]

\* calling an error handler: `throw new Error("... ERROR HANDLER CALLED")`,
\* or a handler that returns
InvokeHandler(h) ==
    IF h.kind = "raise"
    THEN Raised([src |-> "handler", id |-> h.id, thrown |-> -1])
    ELSE Returned(h.sub)

\* ---------------------------------------------------- callers' validation

\* the two ways a data guarantee uses its handler: `onError(...)` and
\* `throw onError(...)`
Styles == {"call", "throw"}

\* a data guarantee: the values it accepts and how it calls the handler
Guarantees == [valid : SUBSET Values, style : Styles]

\* a slip: the handler is called before the input is looked at
DataGuaranteeHandlerFirst(mustBe, input, onError) ==
    LET r == InvokeHandler(onError) IN
    IF r.kind = "raise" /\ input \notin mustBe.valid
    THEN [outcome |-> r, invoked |-> <<onError>>]
    ELSE [outcome |-> Returned(-1), invoked |-> <<onError>>]

\* DataGuarantee: (input, onError) => void.  Gives the outcome and the
\* handlers it invoked, in order.
DataGuarantee(mustBe, input, onError) ==
    IF input \in mustBe.valid
    THEN [outcome |-> Returned(-1), invoked |-> <<>>]
    ELSE LET r == InvokeHandler(onError) IN
         IF r.kind = "raise"
         THEN [outcome |-> r, invoked |-> <<onError>>]
         ELSE IF mustBe.style = "throw"
              THEN [outcome |-> Raised([src |-> "guarantee", id |-> "none", thrown |-> r.value]),
                    invoked |-> <<onError>>]
              ELSE [outcome |-> Returned(-1), invoked |-> <<onError>>]

\* DataCoercion: (input, onError) => GR.  `if (!ok(input)) input = onError(..);
\* return input`
DataCoercion(mustBe, input, onError) ==
    IF input \in mustBe.valid
    THEN [outcome |-> Returned(input), invoked |-> <<>>]
    ELSE [outcome |-> InvokeHandler(onError), invoked |-> <<onError>>]

\* ------------------------------------------------------------ the factories

Markers == {"branded", "flavoured"}

NoCtor == [kind |-> "none", api |-> "none", marker |-> "none",
           mustBe |-> [valid |-> {}, style |-> "call"],
           defaultOnError |-> Undefined, formatter |-> "none"]

\* the closure makeRefinedTypeFactory returns: it captures mustBe and
\* defaultOnError
makeRefinedTypeFactory(mustBe, defaultOnError, marker) ==
    [kind |-> "refined", api |-> "V1", marker |-> marker,
     mustBe |-> mustBe, defaultOnError |-> defaultOnError, formatter |-> "none"]

\* the v2 makeRefinedTypeFactory
makeRefinedTypeFactoryV2(mustBe, defaultOnError, marker) ==
    [kind |-> "refined", api |-> "v2", marker |-> marker,
     mustBe |-> mustBe, defaultOnError |-> defaultOnError, formatter |-> "none"]

\* the closure makeCoercedTypeFactory returns
makeCoercedTypeFactory(mustBe, defaultOnError, marker) ==
    [kind |-> "coerced", api |-> "V1", marker |-> marker,
     mustBe |-> mustBe, defaultOnError |-> defaultOnError, formatter |-> "none"]

\* a slip: the default handler is never filled in
EffectiveOnErrorNoDefault(onError, defaultOnError) == onError

\* a slip: the caller's override is ignored
EffectiveOnErrorAlwaysDefault(onError, defaultOnError) == defaultOnError

\* `onError = onError ?? defaultOnError`
EffectiveOnError(onError, defaultOnError) ==
    IF onError = Undefined THEN defaultOnError ELSE onError

\* a slip: the refinement changes the value at runtime
AsBRChanged(input, marker) == (input + 1) % (MaxValue + 1)

\* `(input as unknown) as BR`: a cast, erased at runtime
AsBR(input, marker) == input

\* a slip: the contract is not enforced
RefinedTypeFactoryNoCheck(c, input, onError) ==
    [outcome |-> Returned(input), invoked |-> <<>>, mustBeCalls |-> 0]

\* a slip: the constructor replaces the handler's failure by one of its own
RefinedTypeFactoryOwnFailure(c, input, onError) ==
    LET h == EffectiveOnError(onError, c.defaultOnError)
        g == DataGuarantee(c.mustBe, input, h)
    IN  IF g.outcome.kind = "raise"
        THEN [outcome |-> Raised([src |-> "factory", id |-> "none", thrown |-> -1]),
              invoked |-> g.invoked, mustBeCalls |-> 1]
        ELSE [outcome |-> Returned(input), invoked |-> g.invoked, mustBeCalls |-> 1]

\* a slip: the constructor decides for itself and refuses whenever a
\* handler was called
RefinedTypeFactoryRefusesAfterHandler(c, input, onError) ==
    LET h == EffectiveOnError(onError, c.defaultOnError)
        g == DataGuarantee(c.mustBe, input, h)
    IN  IF g.outcome.kind = "raise"
        THEN [outcome |-> g.outcome, invoked |-> g.invoked, mustBeCalls |-> 1]
        ELSE IF g.invoked # <<>>
        THEN [outcome |-> Raised([src |-> "factory", id |-> "none", thrown |-> -1]),
              invoked |-> g.invoked, mustBeCalls |-> 1]
        ELSE [outcome |-> Returned(input), invoked |-> g.invoked, mustBeCalls |-> 1]

\* one call of the constructor built by makeRefinedTypeFactory (V1)
RefinedTypeFactory(c, input, onError) ==
    LET h == EffectiveOnError(onError, c.defaultOnError)
        g == DataGuarantee(c.mustBe, input, h)
    IN  IF g.outcome.kind = "raise"
        THEN [outcome |-> g.outcome, invoked |-> g.invoked, mustBeCalls |-> 1]
        ELSE [outcome |-> Returned(AsBR(input, c.marker)),
              invoked |-> g.invoked, mustBeCalls |-> 1]

\* one call of the constructor built by the v2 makeRefinedTypeFactory
RefinedTypeFactoryV2(c, input, onError) ==
    LET h == EffectiveOnError(onError, c.defaultOnError)
        g == DataGuarantee(c.mustBe, input, h)
    IN  IF g.outcome.kind = "raise"
        THEN [outcome |-> g.outcome, invoked |-> g.invoked, mustBeCalls |-> 1]
        ELSE [outcome |-> Returned(input), invoked |-> g.invoked, mustBeCalls |-> 1]

\* a slip: `mustBe(input, onError)` without `input =`
CoercedTypeFactoryKeepsInput(c, input, onError) ==
    LET h == EffectiveOnError(onError, c.defaultOnError)
        g == DataCoercion(c.mustBe, input, h)
    IN  IF g.outcome.kind = "raise"
        THEN [outcome |-> g.outcome, invoked |-> g.invoked, mustBeCalls |-> 1]
        ELSE [outcome |-> Returned(input), invoked |-> g.invoked, mustBeCalls |-> 1]

\* a slip: the handler's substitute is put through the rule again
CoercedTypeFactoryRevalidates(c, input, onError) ==
    LET h == EffectiveOnError(onError, c.defaultOnError)
        g == DataCoercion(c.mustBe, input, h)
    IN  IF g.outcome.kind = "raise"
        THEN [outcome |-> g.outcome, invoked |-> g.invoked, mustBeCalls |-> 1]
        ELSE IF g.invoked = <<>>
        THEN [outcome |-> Returned(AsBR(g.outcome.value, c.marker)),
              invoked |-> g.invoked, mustBeCalls |-> 1]
        ELSE LET g2 == DataCoercion(c.mustBe, g.outcome.value, h)
             IN  [outcome |-> IF g2.outcome.kind = "raise" THEN g2.outcome
                              ELSE Returned(AsBR(g2.outcome.value, c.marker)),
                  invoked |-> g.invoked \o g2.invoked, mustBeCalls |-> 2]

\* a slip: the constructor picks a substitute of its own when the rule's
\* value does not pass the rule
CoercedTypeFactoryOwnSubstitute(c, input, onError) ==
    LET h == EffectiveOnError(onError, c.defaultOnError)
        g == DataCoercion(c.mustBe, input, h)
    IN  IF g.outcome.kind = "raise"
        THEN [outcome |-> g.outcome, invoked |-> g.invoked, mustBeCalls |-> 1]
        ELSE IF g.outcome.value \in c.mustBe.valid
        THEN [outcome |-> Returned(AsBR(g.outcome.value, c.marker)),
              invoked |-> g.invoked, mustBeCalls |-> 1]
        ELSE [outcome |-> Returned(AsBR(input, c.marker)),
              invoked |-> g.invoked, mustBeCalls |-> 1]

\* a slip: the handler's failure is caught and the input returned
CoercedTypeFactorySwallowsFailure(c, input, onError) ==
    LET h == EffectiveOnError(onError, c.defaultOnError)
        g == DataCoercion(c.mustBe, input, h)
    IN  IF g.outcome.kind = "raise"
        THEN [outcome |-> Returned(AsBR(input, c.marker)),
              invoked |-> g.invoked, mustBeCalls |-> 1]
        ELSE [outcome |-> Returned(AsBR(g.outcome.value, c.marker)),
              invoked |-> g.invoked, mustBeCalls |-> 1]

\* one call of the constructor built by makeCoercedTypeFactory
CoercedTypeFactory(c, input, onError) ==
    LET h == EffectiveOnError(onError, c.defaultOnError)
        g == DataCoercion(c.mustBe, input, h)
    IN  IF g.outcome.kind = "raise"
        THEN [outcome |-> g.outcome, invoked |-> g.invoked, mustBeCalls |-> 1]
        ELSE [outcome |-> Returned(AsBR(g.outcome.value, c.marker)),
              invoked |-> g.invoked, mustBeCalls |-> 1]

\* a slip: a failed call leaves the closure refusing every later input
ClosureAfterCallBrokenByFailure(c, input, onError) ==
    IF DataGuarantee(c.mustBe, input, EffectiveOnError(onError, c.defaultOnError)).outcome.kind
           = "raise"
    THEN [c EXCEPT !.mustBe.valid = {}]
    ELSE c

\* a slip: the override is written into the captured default
ClosureAfterCallKeepsOverride(c, input, onError) ==
    IF onError = Undefined THEN c ELSE [c EXCEPT !.defaultOnError = onError]

\* the closure after a call: the call assigns only its own parameters, the
\* captured mustBe and defaultOnError are left as they were
ClosureAfterCall(c, input, onError) == c

\* ------------------------------------------------------- values and records

\* a JavaScript value: a primitive number, a string (its characters), a
\* reference to a record on the heap, null or undefined
Prim(v) == [tag |-> "prim", v |-> v, s |-> <<>>]
Str(s) == [tag |-> "str", v |-> -1, s |-> s]
Ref(a) == [tag |-> "ref", v |-> a, s |-> <<>>]
Null == [tag |-> "null", v |-> -1, s |-> <<>>]
NoVal == [tag |-> "undefined", v |-> -1, s |-> <<>>]

Vals == {Prim(v) : v \in Values} \cup {Ref(a) : a \in Addrs}

\* ExampleRecord: { id, field1 }
Records == [id : FieldValues, field1 : FieldValues]

\* -------------------------------------------------------- the base classes

NoRecord == [id |-> -1, field1 |-> -1]

\* what a value holds: a primitive holds itself, a reference the record's
\* fields
Content(val, h) ==
    IF val.tag = "ref" THEN h[val.v] ELSE [id |-> val.v, field1 |-> val.v]

NoObject == [class |-> "none", value |-> NoVal]

\* a slip: the constructor does not store its input
ValueObjectNewUnset(input) == [class |-> "ValueObject", value |-> NoVal]

\* a slip: the constructor refuses null
ValueObjectNewRefusesNull(input) ==
    IF input = Null THEN NoObject ELSE [class |-> "ValueObject", value |-> input]

\* ValueObject's constructor: `this.value = input`
ValueObjectNew(input) == [class |-> "ValueObject", value |-> input]

\* EntityObject's constructor: `this.value = input`
EntityObjectNew(input) == [class |-> "EntityObject", value |-> input]

\* a slip: valueOf() returns nothing
ValueOfLost(self) == NoVal

\* ValueObject.valueOf(): `return this.value`
ValueOf(self) == self.value

\* a slip: valueOf() hands out another record than the one wrapped (a copy
\* lives at an address of its own)
EntityValueOfClone(self) == Ref((self.value.v % NumRecords) + 1)

\* EntityObject.valueOf(): `return this.value`
EntityValueOf(self) == self.value

\* the refined and coerced classes: the V1 ones stand on their own, the v2
\* ones extend ValueObject
RefinedClassesV1 == {"V1.RefinedNumber", "V1.RefinedString"}
RefinedClassesV2 == {"v2.RefinedNumber", "v2.RefinedString"}
CoercedClasses == {"V1.CoercedNumber"}
NumberClasses == {"V1.RefinedNumber", "v2.RefinedNumber", "V1.CoercedNumber"}
StringClasses == {"V1.RefinedString", "v2.RefinedString"}

\* V1 RefinedType.valueOf(): `return this.value`
RefinedTypeValueOf(self) == self.value

\* valueOf() as the object's class defines it
DispatchValueOf(self) ==
    IF self.class = "EntityObject" THEN EntityValueOf(self)
    ELSE IF self.class \in RefinedClassesV1 \cup CoercedClasses
         THEN RefinedTypeValueOf(self)
         ELSE ValueOf(self)

\* a slip: a type guard that looks at what is wrapped
IsValuePrimitivesOnly(self) == self.value.tag = "prim"

\* isValue(): `return true`
IsValue(self) == TRUE

\* isEntity(): `return true`
IsEntity(self) == TRUE

\* a slip: the accessor reads another field of the record
IdOfOtherField(self, h) == Prim(h[self.value.v].field1)

\* ExampleEntity.idOf(): `return this.value.id`
IdOf(self, h) == Prim(h[self.value.v].id)

\* a slip: EntityObject declared as `extends ValueObject`
MethodsEntityExtendsValue(class) ==
    IF class = "ValueObject" THEN {"valueOf", "isValue"}
    ELSE IF class = "EntityObject" THEN {"valueOf", "isValue", "isEntity", "idOf"}
    ELSE IF class \in RefinedClassesV2 THEN {"valueOf", "isValue", "toPrimitive"}
    ELSE IF class \in RefinedClassesV1 \cup CoercedClasses THEN {"valueOf", "toPrimitive"}
    ELSE {}

\* the methods a class has, its own and the inherited ones.  EntityObject
\* `implements Entity` and extends nothing; the v2 RefinedType extends
\* ValueObject; the V1 RefinedType extends nothing and defines valueOf()
\* alone; the number and string classes add [Symbol.toPrimitive]().
Methods(class) ==
    IF class = "ValueObject" THEN {"valueOf", "isValue"}
    ELSE IF class = "EntityObject" THEN {"valueOf", "isEntity", "idOf"}
    ELSE IF class \in RefinedClassesV2 THEN {"valueOf", "isValue", "toPrimitive"}
    ELSE IF class \in RefinedClassesV1 \cup CoercedClasses THEN {"valueOf", "toPrimitive"}
    ELSE {}

HasMethod(self, m) == m \in Methods(self.class)

\* ------------------------------------------ the refined and coerced classes

\* the age the RefinedNumber tests wrap
AdultAge == 21
\* strings have up to MaxLen characters
MaxLen == 2

Chars == {"A", "1"}
Numbers == Values \cup {AdultAge}
Strings == UNION {[1..n -> Chars] : n \in 0..MaxLen}

\* what a class wraps
InputsOf(class) ==
    IF class \in StringClasses
    THEN {Str(s) : s \in Strings}
    ELSE {Prim(n) : n \in Numbers}

\* data guarantees over numbers ("at least k", from "any number" to "no
\* number") and over strings ("at least k characters")
NumberGuarantees ==
    [valid : {{Prim(n) : n \in {m \in Numbers : m >= k}} :
                  k \in Numbers \cup {AdultAge + 1}},
     style : Styles]
StringGuarantees ==
    [valid : {{Str(s) : s \in {t \in Strings : Len(t) >= k}} :
                  k \in {0, 1, MaxLen + 1}},
     style : Styles]

GuaranteesOf(class) ==
    IF class \in StringClasses THEN StringGuarantees ELSE NumberGuarantees

\* a slip: the value is stored without enforcing the contract
RefinedTypeNewNoCheck(class, input, mustBe, onError) ==
    [object |-> [class |-> class, value |-> input],
     outcome |-> Returned(-1), invoked |-> <<>>]

\* the V1 RefinedType constructor: `mustBe(input, onError); this.value = input;`
RefinedTypeNew(class, input, mustBe, onError) ==
    LET g == DataGuarantee(mustBe, input, onError)
    IN  IF g.outcome.kind = "raise"
        THEN [object |-> NoObject, outcome |-> g.outcome, invoked |-> g.invoked]
        ELSE [object |-> [class |-> class, value |-> input],
              outcome |-> Returned(-1), invoked |-> g.invoked]

\* the v2 RefinedType constructor: `mustBe(input, onError); super(input);`
RefinedTypeNewV2(class, input, mustBe, onError) ==
    LET g == DataGuarantee(mustBe, input, onError)
    IN  IF g.outcome.kind = "raise"
        THEN [object |-> NoObject, outcome |-> g.outcome, invoked |-> g.invoked]
        ELSE [object |-> [ValueObjectNew(input) EXCEPT !.class = class],
              outcome |-> Returned(-1), invoked |-> g.invoked]

\* the CoercedType constructor: `this.value = mustBe(input, onError);`
CoercedTypeNew(class, input, mustBe, onError) ==
    LET c == DataCoercion(mustBe, input, onError)
    IN  IF c.outcome.kind = "raise"
        THEN [object |-> NoObject, outcome |-> c.outcome, invoked |-> c.invoked]
        ELSE [object |-> [class |-> class,
                          value |-> IF c.invoked = <<>>
                                    THEN c.outcome.value
                                    ELSE Prim(c.outcome.value)],
              outcome |-> Returned(-1), invoked |-> c.invoked]

\* ---------------------------------------------------- primitive conversion

Hints == {"string", "number", "default"}

Digits == <<"0", "1", "2", "3", "4", "5", "6", "7", "8", "9">>

\* Number.prototype.toString() of a non-negative integer: its decimal digits
RECURSIVE NumberToString(_)
NumberToString(n) ==
    IF n < 10
    THEN <<Digits[n + 1]>>
    ELSE NumberToString(n \div 10) \o <<Digits[(n % 10) + 1]>>

\* a slip: the hint is ignored
CoercedNumberToPrimitiveNoHint(self, hint) == self.value

\* CoercedNumber[Symbol.toPrimitive](hint):
\* `if (hint === "string") return this.value.toString(); return this.value;`
CoercedNumberToPrimitive(self, hint) ==
    IF hint = "string" THEN Str(NumberToString(self.value.v)) ELSE self.value

\* RefinedNumber[Symbol.toPrimitive](hint)
RefinedNumberToPrimitive(self, hint) ==
    IF hint = "string" THEN Str(NumberToString(self.value.v)) ELSE self.value

\* a slip: a string that reads as a number converts to that number
RefinedStringToPrimitiveParses(self, hint) ==
    IF hint = "number" /\ self.value.s = <<"1">> THEN Prim(1)
    ELSE IF hint = "number" THEN Null
    ELSE self.value

\* RefinedString[Symbol.toPrimitive](hint)
RefinedStringToPrimitive(self, hint) ==
    IF hint = "number" THEN Null ELSE self.value

\* [Symbol.toPrimitive]() as the object's class defines it
DispatchToPrimitive(self, hint) ==
    IF self.class \in StringClasses THEN RefinedStringToPrimitive(self, hint)
    ELSE IF self.class \in CoercedClasses THEN CoercedNumberToPrimitive(self, hint)
    ELSE RefinedNumberToPrimitive(self, hint)

\* JavaScript's ToString of a primitive
JsToString(val) ==
    IF val.tag = "str" THEN val.s
    ELSE IF val.tag = "prim" THEN NumberToString(val.v)
    ELSE IF val.tag = "null" THEN <<"n", "u", "l", "l">>
    ELSE <<"u", "n", "d", "e", "f", "i", "n", "e", "d">>

\* the prefix of the tests' concatenations ("this is a uuid: ")
ConcatPrefix == <<"i", "d", ":", " ">>

\* `prefix + x`: x[Symbol.toPrimitive]("default"), then ToString of what it
\* gives, appended to the prefix
Concat(prefix, self) ==
    Str(prefix \o JsToString(DispatchToPrimitive(self, "default")))

\* ----------------------------------------------- the factory with formatter

\* the handlers a data guarantee is given: it makes no use of what a handler
\* returns, so one returned value stands for all
GuaranteeHandlers == RaisingHandlers \cup {h \in ReturningHandlers : h.sub = 0}

\* the formatters of the tests: `(x) => x` and `(x) => x.toLocaleLowerCase()`
Formatters == {"identity", "toLocaleLowerCase"}

\* the lower-case form of a character
LowerChar(c) == IF c = "A" THEN "a" ELSE c

\* String.prototype.toLocaleLowerCase()
ToLocaleLowerCase(str) == [i \in 1..Len(str) |-> LowerChar(str[i])]

\* calling the formatter on a string
ApplyFormatter(formatter, input) ==
    IF formatter = "toLocaleLowerCase"
    THEN Str(ToLocaleLowerCase(input.s))
    ELSE input

\* the closure makeRefinedTypeFactoryWithFormatter returns
makeRefinedTypeFactoryWithFormatter(mustBe, formatter, defaultOnError, marker) ==
    [kind |-> "formatted", api |-> "v2", marker |-> marker,
     mustBe |-> mustBe, defaultOnError |-> defaultOnError, formatter |-> formatter]

\* a slip: the formatter is never called
FormattedTypeFactoryNoFormat(c, input, onError) ==
    LET h == EffectiveOnError(onError, c.defaultOnError)
        g == DataGuarantee(c.mustBe, input, h)
    IN  IF g.outcome.kind = "raise"
        THEN [outcome |-> g.outcome, invoked |-> g.invoked, mustBeCalls |-> 1]
        ELSE [outcome |-> Returned(input), invoked |-> g.invoked, mustBeCalls |-> 1]

\* a slip: the caller's override is not passed on to the guarantee
FormattedTypeFactoryNoOverride(c, input, onError) ==
    LET g == DataGuarantee(c.mustBe, input, c.defaultOnError)
    IN  IF g.outcome.kind = "raise"
        THEN [outcome |-> g.outcome, invoked |-> g.invoked, mustBeCalls |-> 1]
        ELSE [outcome |-> Returned(ApplyFormatter(c.formatter, input)),
              invoked |-> g.invoked, mustBeCalls |-> 1]

\* one call of the constructor built by makeRefinedTypeFactoryWithFormatter:
\* the guarantee first, then the formatter
FormattedTypeFactory(c, input, onError) ==
    LET h == EffectiveOnError(onError, c.defaultOnError)
        g == DataGuarantee(c.mustBe, input, h)
    IN  IF g.outcome.kind = "raise"
        THEN [outcome |-> g.outcome, invoked |-> g.invoked, mustBeCalls |-> 1]
        ELSE [outcome |-> Returned(ApplyFormatter(c.formatter, input)),
              invoked |-> g.invoked, mustBeCalls |-> 1]

\* ------------------------------------------------------------------- state

VARIABLES
    ctor,       \* the smart constructor the caller holds
    call,       \* the caller's latest call of ctor, and how it ended
    heap,       \* the records on the heap, by address
    obj,        \* the wrapper object the caller holds
    made,       \* the input the wrapper object was constructed from
    snapshot,   \* what that input held when the object was constructed
    written,    \* a caller has written to the wrapped record since then
    result,     \* the caller's latest operation on the wrapper, and its result
    firstValueOf, \* what the wrapper's first valueOf() call returned
    nValueOf,   \* calls of valueOf() on the wrapper so far
    nOther,     \* calls of the wrapper's other methods so far
    construct,  \* the latest `new` of a refined or coerced class, and how it ended
    built,      \* the arguments the factory was given when it built ctor
    overridden, \* a call of ctor before the latest one was given an override
                \* other than the factory's default handler
    failedBefore \* the retrying caller's note: a call of ctor before the
                \* latest one ended with a raised failure

factoryVars == <<ctor, call, built, overridden, failedBefore>>
objectVars == <<heap, obj, made, snapshot, written, result, firstValueOf, nValueOf,
                nOther, construct>>
vars == <<ctor, call, built, overridden, failedBefore, heap, obj, made, snapshot, written, result,
          firstValueOf, nValueOf, nOther, construct>>

NoCall == [input |-> -1, onError |-> Undefined, outcome |-> NoOutcome,
           invoked |-> <<>>, mustBeCalls |-> 0]

\* a method call that returned: `val` for the getters, `flag` for the
\* predicates; `arg` is the call's argument
OpResult(op, arg, val, flag) ==
    [op |-> op, arg |-> arg, val |-> val, flag |-> flag, threw |-> FALSE]

\* a call of a method the object does not have: "TypeError: x.m is not a
\* function"
NotAFunction(op, arg) ==
    [op |-> op, arg |-> arg, val |-> NoVal, flag |-> FALSE, threw |-> TRUE]

NoResult == OpResult("none", "none", NoVal, FALSE)

NoConstruct == [class |-> "none", input |-> NoVal,
                mustBe |-> [valid |-> {}, style |-> "call"], onError |-> Undefined,
                outcome |-> NoOutcome, invoked |-> <<>>]

NoBuilt == [mustBe |-> [valid |-> {}, style |-> "call"], defaultOnError |-> Undefined]

Init ==
    /\ ctor = NoCtor
    /\ call = NoCall
    /\ built = NoBuilt
    /\ overridden = FALSE
    /\ failedBefore = FALSE
    /\ construct = NoConstruct
    /\ heap = [a \in Addrs |-> [id |-> 0, field1 |-> 0]]
    /\ obj = NoObject
    /\ made = NoVal
    /\ snapshot = NoRecord
    /\ written = FALSE
    /\ result = NoResult
    /\ firstValueOf = NoVal
    /\ nValueOf = 0
    /\ nOther = 0

\* ------------------------------------------------- the factories' callers

\* the caller builds a V1 refined-type constructor
MakeRefined ==
    \E g \in Guarantees, d \in Handlers, m \in Markers :
        /\ ctor = NoCtor
        /\ ctor' = makeRefinedTypeFactory(g, d, m)
        /\ call' = NoCall
        /\ built' = [mustBe |-> g, defaultOnError |-> d]
        /\ overridden' = FALSE
        /\ failedBefore' = FALSE
        /\ UNCHANGED objectVars

\* the caller builds a v2 refined-type constructor
MakeRefinedV2 ==
    \E g \in Guarantees, d \in Handlers, m \in Markers :
        /\ ctor = NoCtor
        /\ ctor' = makeRefinedTypeFactoryV2(g, d, m)
        /\ call' = NoCall
        /\ built' = [mustBe |-> g, defaultOnError |-> d]
        /\ overridden' = FALSE
        /\ failedBefore' = FALSE
        /\ UNCHANGED objectVars

\* the caller builds a coercing constructor
MakeCoerced ==
    \E valid \in SUBSET Values, d \in Handlers, m \in Markers :
        /\ ctor = NoCtor
        /\ ctor' = makeCoercedTypeFactory([valid |-> valid, style |-> "call"], d, m)
        /\ call' = NoCall
        /\ built' = [mustBe |-> [valid |-> valid, style |-> "call"], defaultOnError |-> d]
        /\ overridden' = FALSE
        /\ failedBefore' = FALSE
        /\ UNCHANGED objectVars

CallRecord(input, onError, r) ==
    [input |-> input, onError |-> onError, outcome |-> r.outcome,
     invoked |-> r.invoked, mustBeCalls |-> r.mustBeCalls]

\* the caller calls the V1 refined-type constructor
CallRefined ==
    \E input \in Values, onError \in Handlers \cup {Undefined} :
        /\ ctor.kind = "refined" /\ ctor.api = "V1"
        /\ call' = CallRecord(input, onError, RefinedTypeFactory(ctor, input, onError))
        /\ ctor' = ClosureAfterCall(ctor, input, onError)
        /\ overridden' = (overridden \/ call.onError \notin {Undefined, built.defaultOnError})
        /\ UNCHANGED <<built, failedBefore>>
        /\ UNCHANGED objectVars

\* the caller calls the v2 refined-type constructor
CallRefinedV2 ==
    \E input \in Values, onError \in Handlers \cup {Undefined} :
        /\ ctor.kind = "refined" /\ ctor.api = "v2"
        /\ call' = CallRecord(input, onError, RefinedTypeFactoryV2(ctor, input, onError))
        /\ ctor' = ClosureAfterCall(ctor, input, onError)
        /\ overridden' = (overridden \/ call.onError \notin {Undefined, built.defaultOnError})
        /\ UNCHANGED <<built, failedBefore>>
        /\ UNCHANGED objectVars

\* the caller calls the coercing constructor
CallCoerced ==
    \E input \in Values, onError \in Handlers \cup {Undefined} :
        /\ ctor.kind = "coerced"
        /\ call' = CallRecord(input, onError, CoercedTypeFactory(ctor, input, onError))
        /\ ctor' = ClosureAfterCall(ctor, input, onError)
        /\ overridden' = (overridden \/ call.onError \notin {Undefined, built.defaultOnError})
        /\ UNCHANGED <<built, failedBefore>>
        /\ UNCHANGED objectVars

\* the caller lets go of the constructor
DropCtor ==
    /\ ctor # NoCtor
    /\ ctor' = NoCtor
    /\ call' = NoCall
    /\ built' = NoBuilt
    /\ overridden' = FALSE
    /\ failedBefore' = FALSE
    /\ UNCHANGED objectVars

Next ==
    \/ MakeRefined
    \/ MakeRefinedV2
    \/ MakeCoerced
    \/ CallRefined
    \/ CallRefinedV2
    \/ CallCoerced
    \/ DropCtor

Spec == Init /\ [][Next]_vars

\* ------------------------------------------------- the retrying caller

\* a caller that calls the V1 refined-type constructor again after earlier
\* calls, and notes whether one of them failed
CallRefinedAgain ==
    \E input \in Values, onError \in Handlers \cup {Undefined} :
        /\ ctor.kind = "refined" /\ ctor.api = "V1"
        /\ call' = CallRecord(input, onError, RefinedTypeFactory(ctor, input, onError))
        /\ ctor' = ClosureAfterCall(ctor, input, onError)
        /\ overridden' = (overridden \/ call.onError \notin {Undefined, built.defaultOnError})
        /\ failedBefore' = (failedBefore \/ call.outcome.kind = "raise")
        /\ UNCHANGED built
        /\ UNCHANGED objectVars

NextRetry ==
    \/ MakeRefined
    \/ CallRefinedAgain
    \/ DropCtor

SpecRetry == Init /\ [][NextRetry]_vars

\* ------------------------------------ the factory with formatter's callers

\* the caller builds a constructor with a formatter
MakeFormatted ==
    \E g \in StringGuarantees, f \in Formatters, d \in GuaranteeHandlers, m \in Markers :
        /\ ctor = NoCtor
        /\ ctor' = makeRefinedTypeFactoryWithFormatter(g, f, d, m)
        /\ call' = NoCall
        /\ built' = [mustBe |-> g, defaultOnError |-> d]
        /\ overridden' = FALSE
        /\ failedBefore' = FALSE
        /\ UNCHANGED objectVars

\* the caller calls the constructor with a formatter
CallFormatted ==
    \E s \in Strings, onError \in GuaranteeHandlers \cup {Undefined} :
        /\ ctor.kind = "formatted"
        /\ call' = CallRecord(Str(s), onError, FormattedTypeFactory(ctor, Str(s), onError))
        /\ ctor' = ClosureAfterCall(ctor, Str(s), onError)
        /\ overridden' = (overridden \/ call.onError \notin {Undefined, built.defaultOnError})
        /\ UNCHANGED <<built, failedBefore>>
        /\ UNCHANGED objectVars

NextFormatter ==
    \/ MakeFormatted
    \/ CallFormatted
    \/ DropCtor

SpecFormatter == Init /\ [][NextFormatter]_vars

\* ---------------------------------------------- the base classes' callers

\* the caller fills in a record of its own before wrapping anything
CallerPrepares ==
    \E a \in Addrs, f \in {"id", "field1"}, v \in FieldValues :
        /\ obj = NoObject
        /\ heap[a][f] # v
        /\ heap' = [heap EXCEPT ![a][f] = v]
        /\ UNCHANGED <<obj, made, snapshot, written, result, firstValueOf, nValueOf,
                       nOther, construct, factoryVars>>

\* `new ExampleValue(input)`: a ValueObject around a primitive or a record
NewValueObject ==
    \E input \in Vals \cup {Null} :
        /\ obj = NoObject
        /\ obj' = ValueObjectNew(input)
        /\ made' = input
        /\ snapshot' = Content(input, heap)
        /\ result' = OpResult("new", "none", NoVal, FALSE)
        /\ UNCHANGED <<heap, written, firstValueOf, nValueOf, nOther, construct, factoryVars>>

\* `new ExampleEntity(input)`: an EntityObject around a record
NewEntityObject ==
    \E a \in Addrs :
        /\ obj = NoObject
        /\ obj' = EntityObjectNew(Ref(a))
        /\ made' = Ref(a)
        /\ snapshot' = Content(Ref(a), heap)
        /\ result' = OpResult("new", "none", NoVal, FALSE)
        /\ UNCHANGED <<heap, written, firstValueOf, nValueOf, nOther, construct, factoryVars>>

\* the caller calls valueOf()
CallValueOf ==
    /\ obj # NoObject
    /\ nValueOf + nOther < MaxOps
    /\ result' = OpResult("valueOf", "none", DispatchValueOf(obj), FALSE)
    /\ firstValueOf' = IF nValueOf = 0 THEN DispatchValueOf(obj) ELSE firstValueOf
    /\ nValueOf' = nValueOf + 1
    /\ UNCHANGED <<heap, obj, made, snapshot, written, nOther, construct, factoryVars>>

\* the caller calls isValue()
CallIsValue ==
    /\ obj # NoObject
    /\ nValueOf + nOther < MaxOps
    /\ result' = IF HasMethod(obj, "isValue")
                 THEN OpResult("isValue", "none", NoVal, IsValue(obj))
                 ELSE NotAFunction("isValue", "none")
    /\ nOther' = nOther + 1
    /\ UNCHANGED <<heap, obj, made, snapshot, written, firstValueOf, nValueOf, construct,
                   factoryVars>>

\* the caller calls isEntity()
CallIsEntity ==
    /\ obj # NoObject
    /\ nValueOf + nOther < MaxOps
    /\ result' = IF HasMethod(obj, "isEntity")
                 THEN OpResult("isEntity", "none", NoVal, IsEntity(obj))
                 ELSE NotAFunction("isEntity", "none")
    /\ nOther' = nOther + 1
    /\ UNCHANGED <<heap, obj, made, snapshot, written, firstValueOf, nValueOf, construct,
                   factoryVars>>

\* the caller calls idOf()
CallIdOf ==
    /\ obj # NoObject
    /\ nValueOf + nOther < MaxOps
    /\ result' = IF HasMethod(obj, "idOf")
                 THEN OpResult("idOf", "none", IdOf(obj, heap), FALSE)
                 ELSE NotAFunction("idOf", "none")
    /\ nOther' = nOther + 1
    /\ UNCHANGED <<heap, obj, made, snapshot, written, firstValueOf, nValueOf, construct,
                   factoryVars>>

\* the caller writes a field of the record valueOf() handed out: valueOf()
\* returns the record itself, never a clone
CallerWrites ==
    \E f \in {"id", "field1"}, v \in FieldValues :
        /\ result.op \in {"valueOf", "write"}
        /\ result.val.tag = "ref"
        /\ heap[result.val.v][f] # v
        /\ heap' = [heap EXCEPT ![result.val.v][f] = v]
        /\ written' = (written \/ result.val = obj.value)
        /\ result' = OpResult("write", "none", result.val, FALSE)
        /\ UNCHANGED <<obj, made, snapshot, firstValueOf, nValueOf, nOther, construct, factoryVars>>

\* the caller lets go of the wrapper object, or has caught the failure of
\* the `new` that did not give one
DropObject ==
    /\ obj # NoObject \/ construct # NoConstruct
    /\ obj' = NoObject
    /\ made' = NoVal
    /\ snapshot' = NoRecord
    /\ written' = FALSE
    /\ result' = NoResult
    /\ firstValueOf' = NoVal
    /\ nValueOf' = 0
    /\ nOther' = 0
    /\ construct' = NoConstruct
    /\ UNCHANGED <<heap, factoryVars>>

NextObjects ==
    \/ CallerPrepares
    \/ NewValueObject
    \/ NewEntityObject
    \/ CallValueOf
    \/ CallIsValue
    \/ CallIsEntity
    \/ CallIdOf
    \/ CallerWrites
    \/ DropObject

SpecObjects == Init /\ [][NextObjects]_vars

\* ------------------------------- the refined and coerced classes' callers

\* what a `new` leaves behind: the object if the constructor returned, and
\* the record of the call
Constructed(class, input, mustBe, onError, r) ==
    /\ obj' = r.object
    /\ construct' = [class |-> class, input |-> input, mustBe |-> mustBe,
                     onError |-> onError, outcome |-> r.outcome,
                     invoked |-> r.invoked]
    /\ made' = IF r.object = NoObject THEN NoVal ELSE input
    /\ result' = IF r.object = NoObject THEN NoResult
                 ELSE OpResult("new", "none", NoVal, FALSE)
    /\ UNCHANGED <<heap, snapshot, written, firstValueOf, nValueOf, nOther,
                   factoryVars>>

\* `new AdultAge(input, mustBe, onError)`, `new Uuid(...)`: a subclass of
\* the V1 RefinedType
NewRefinedType ==
    \E class \in RefinedClassesV1, onError \in GuaranteeHandlers :
        \E input \in InputsOf(class), mustBe \in GuaranteesOf(class) :
            /\ obj = NoObject /\ construct = NoConstruct
            /\ Constructed(class, input, mustBe, onError,
                           RefinedTypeNew(class, input, mustBe, onError))

\* the same with a subclass of the v2 RefinedType
NewRefinedTypeV2 ==
    \E class \in RefinedClassesV2, onError \in GuaranteeHandlers :
        \E input \in InputsOf(class), mustBe \in GuaranteesOf(class) :
            /\ obj = NoObject /\ construct = NoConstruct
            /\ Constructed(class, input, mustBe, onError,
                           RefinedTypeNewV2(class, input, mustBe, onError))

\* `new X(input, mustBe, onError)` with X a subclass of CoercedNumber
NewCoercedType ==
    \E class \in CoercedClasses, onError \in Handlers :
        \E input \in InputsOf(class), mustBe \in GuaranteesOf(class) :
            /\ obj = NoObject /\ construct = NoConstruct
            /\ mustBe.style = "call"
            /\ Constructed(class, input, mustBe, onError,
                           CoercedTypeNew(class, input, mustBe, onError))

\* the caller calls x[Symbol.toPrimitive](hint)
CallToPrimitive ==
    \E hint \in Hints :
        /\ obj # NoObject
        /\ nValueOf + nOther < MaxOps
        /\ result' = IF HasMethod(obj, "toPrimitive")
                     THEN OpResult("toPrimitive", hint, DispatchToPrimitive(obj, hint), FALSE)
                     ELSE NotAFunction("toPrimitive", hint)
        /\ nOther' = nOther + 1
        /\ UNCHANGED <<heap, obj, made, snapshot, written, firstValueOf, nValueOf,
                       construct, factoryVars>>

\* the caller evaluates `"this is a uuid: " + x`
CallConcat ==
    /\ obj # NoObject
    /\ HasMethod(obj, "toPrimitive")
    /\ nValueOf + nOther < MaxOps
    /\ result' = OpResult("concat", "none", Concat(ConcatPrefix, obj), FALSE)
    /\ nOther' = nOther + 1
    /\ UNCHANGED <<heap, obj, made, snapshot, written, firstValueOf, nValueOf,
                   construct, factoryVars>>

NextRefined ==
    \/ NewRefinedType
    \/ NewRefinedTypeV2
    \/ NewCoercedType
    \/ CallValueOf
    \/ CallIsValue
    \/ CallToPrimitive
    \/ CallConcat
    \/ DropObject

SpecRefined == Init /\ [][NextRefined]_vars

\* ------------------------------------------------------------------ claims

\* the latest constructor call has run
Called == call.outcome.kind # "none"

\* the input of the latest call passes the constructor's validation rule
Passes == call.input \in ctor.mustBe.valid

\* the handler the latest call had to use: the override if one was given,
\* the factory's default otherwise
CallHandler == IF call.onError = Undefined THEN ctor.defaultOnError ELSE call.onError

\* C1: whenever the input passes the validation rule, a constructor built by
\* makeRefinedTypeFactory (V1 or v2, branded or flavoured, with or without
\* an override) returns exactly the input it was given.
C1_RefinedReturnsInput ==
    (ctor.kind = "refined" /\ Called /\ Passes)
        => call.outcome = Returned(call.input)

C1_Witness ==
    /\ ctor.kind = "refined" /\ ctor.api = "V1" /\ ctor.marker = "flavoured"
    /\ Called /\ Passes
    /\ call.onError # Undefined
    /\ ctor.mustBe.valid # Values
    /\ call.outcome = Returned(call.input)

\* C2: when the input fails the rule and the call gives no override, the
\* handler that is invoked is the factory's default handler.
C2_DefaultHandlerInvoked ==
    (ctor.kind = "refined" /\ Called /\ ~Passes /\ call.onError = Undefined)
        => call.invoked = <<ctor.defaultOnError>>

C2_Witness ==
    /\ ctor.kind = "refined" /\ Called /\ ~Passes
    /\ call.onError = Undefined
    /\ ctor.defaultOnError.kind = "raise"
    /\ call.invoked = <<ctor.defaultOnError>>
    /\ call.outcome.kind = "raise"

\* C3: when the input fails the rule and the call gives an override, the
\* override is the one handler invoked, and the factory's default handler
\* (a different handler) is not invoked during the call.
C3_OverrideInvokedNotDefault ==
    (ctor.kind = "refined" /\ Called /\ ~Passes /\ call.onError # Undefined)
        => /\ call.invoked = <<call.onError>>
           /\ (call.onError # ctor.defaultOnError
                 => \A i \in DOMAIN call.invoked : call.invoked[i] # ctor.defaultOnError)

C3_Witness ==
    /\ ctor.kind = "refined" /\ Called /\ ~Passes
    /\ call.onError # Undefined
    /\ call.onError.id # ctor.defaultOnError.id
    /\ call.invoked = <<call.onError>>
    /\ call.outcome = Raised([src |-> "handler", id |-> call.onError.id, thrown |-> -1])

\* C4: when the input fails the rule and the handler the call uses returns a
\* substitute instead of raising, the constructor built by
\* makeCoercedTypeFactory returns that substitute.
C4_CoercedReturnsSubstitute ==
    (ctor.kind = "coerced" /\ Called /\ ~Passes /\ CallHandler.kind = "return")
        => call.outcome = Returned(CallHandler.sub)

C4_Witness ==
    /\ ctor.kind = "coerced" /\ Called /\ ~Passes
    /\ CallHandler.kind = "return"
    /\ CallHandler.sub # call.input
    /\ call.outcome = Returned(CallHandler.sub)

C6_Original ==
    (ctor.kind = "coerced" /\ call.outcome.kind = "return")
        => call.outcome.value \in ctor.mustBe.valid

\* C6 as amended: every value a constructor built by makeCoercedTypeFactory
\* returns is either an input that passed the rule or the substitute the
\* handler returned, so it satisfies the constraint whenever the handler's
\* substitute does.
C6_CoercedReturnsInputOrSubstitute ==
    (ctor.kind = "coerced" /\ call.outcome.kind = "return")
        => /\ \/ Passes /\ call.outcome.value = call.input
              \/ ~Passes /\ CallHandler.kind = "return"
                         /\ call.outcome.value = CallHandler.sub
           /\ ((CallHandler.kind = "return" /\ CallHandler.sub \in ctor.mustBe.valid)
                 => call.outcome.value \in ctor.mustBe.valid)

C6_Witness ==
    /\ ctor.kind = "coerced" /\ call.outcome.kind = "return"
    /\ ~Passes
    /\ CallHandler.sub \in ctor.mustBe.valid
    /\ call.outcome.value = CallHandler.sub
    /\ call.outcome.value \in ctor.mustBe.valid

C8_ValueOfReturnsInput ==
    (obj.class = "ValueObject" /\ result.op = "valueOf")
        => result.val = made

C8_Witness ==
    /\ obj.class = "ValueObject" /\ result.op = "valueOf"
    /\ nValueOf >= 2 /\ nOther >= 1
    /\ result.val = made

\* C9 as stated: in every reachable state, after any operations of the
\* object and of callers holding what valueOf() returned, what the object
\* wraps holds what was supplied at construction.
C9_Original ==
    obj # NoObject => Content(obj.value, heap) = snapshot

\* C9 as amended: the object never reassigns or changes what it wraps: it
\* always holds the primitive or the record reference supplied at
\* construction, and the record's fields differ from those supplied only
\* once a caller has written to the record valueOf() handed out.
C9_WrappedValueKept ==
    obj # NoObject
        => /\ obj.value = made
           /\ (Content(obj.value, heap) # snapshot => written)

C9_Witness ==
    /\ obj # NoObject
    /\ nValueOf >= 1 /\ nOther >= 1
    /\ obj.value = made
    /\ written
    /\ Content(obj.value, heap) # snapshot

\* C10: valueOf() on an EntityObject or a ValueObject around a record returns
\* the very record passed to the constructor, the same reference and not a
\* copy, and the same one every valueOf() call on the object returns.
C10_ValueOfSameReference ==
    (obj # NoObject /\ made.tag = "ref" /\ result.op = "valueOf")
        => /\ result.val.tag = "ref"
           /\ result.val.v = made.v
           /\ firstValueOf = result.val

C10_Witness ==
    /\ obj.class = "EntityObject" /\ result.op = "valueOf"
    /\ nValueOf >= 2
    /\ result.val = made
    /\ firstValueOf = made
    /\ \E a \in Addrs : a # made.v /\ heap[a] = heap[made.v]

\* C11: every idOf() call on an entity whose accessor reads the record's id
\* field returns the id of the record supplied at construction: the id that
\* record holds now, which is the id it was supplied with unless a caller
\* has written to the record since.
C11_IdOfReturnsRecordId ==
    (obj.class = "EntityObject" /\ result.op = "idOf")
        => /\ ~result.threw
           /\ result.val = Prim(heap[made.v].id)
           /\ (~written => result.val = Prim(snapshot.id))

C11_Witness ==
    /\ obj.class = "EntityObject" /\ result.op = "idOf"
    /\ nOther >= 2
    /\ ~written
    /\ result.val = Prim(snapshot.id)
    /\ snapshot.id # snapshot.field1
    /\ \E a \in Addrs : a # made.v /\ heap[a].id # snapshot.id

\* C12: isValue() on a ValueObject and isEntity() on an EntityObject return
\* true, whatever is wrapped and whatever has happened to it since.
C12_TypeGuardsAnswerTrue ==
    /\ (obj.class = "ValueObject" /\ result.op = "isValue")
          => (~result.threw /\ result.flag = TRUE)
    /\ (obj.class = "EntityObject" /\ result.op = "isEntity")
          => (~result.threw /\ result.flag = TRUE)

C12_Witness ==
    /\ obj.class = "ValueObject" /\ result.op = "isValue"
    /\ made.tag = "ref"
    /\ written /\ Content(obj.value, heap) # snapshot
    /\ result.flag = TRUE

\* C13 as stated: valueOf() and isValue() are available on an EntityObject
\* and give what they give on a ValueObject holding the same value, and
\* idOf() is available too.
C13_Original ==
    obj.class = "EntityObject"
        => /\ result.op \in {"valueOf", "isValue", "idOf"} => ~result.threw
           /\ result.op = "valueOf"
                => result.val = ValueOf(ValueObjectNew(made))
           /\ result.op = "isValue"
                => result.flag = IsValue(ValueObjectNew(made))

\* C13 as amended: an EntityObject has the value wrapper's valueOf(), with
\* the result a ValueObject holding the same value gives, and idOf(); it has
\* no isValue(): its own guard isEntity() answers what isValue() answers on
\* the ValueObject, and a ValueObject has neither isEntity() nor idOf().
C13_EntityIsAWrapperOfItsOwn ==
    /\ obj.class = "EntityObject"
          => /\ result.op \in {"valueOf", "isEntity", "idOf"} => ~result.threw
             /\ result.op = "valueOf"
                  => result.val = ValueOf(ValueObjectNew(made))
             /\ result.op = "isEntity"
                  => result.flag = IsValue(ValueObjectNew(made))
             /\ result.op = "isValue" => result.threw
    /\ obj.class = "ValueObject"
          => (result.op \in {"isEntity", "idOf"} => result.threw)

C13_Witness ==
    /\ obj.class = "EntityObject"
    /\ result.op = "isValue" /\ result.threw
    /\ nValueOf >= 1
    /\ firstValueOf = ValueOf(ValueObjectNew(made))

\* the latest `new` of a RefinedType subclass was given an input its
\* guarantee refuses
RefinedTypeClasses == RefinedClassesV1 \cup RefinedClassesV2
Refused == construct.input \notin construct.mustBe.valid

\* C14 as stated: when the guarantee fails in the RefinedType constructor
\* (V1 or v2), the supplied handler is called, its failure reaches the
\* caller, and no refined object holding the failing input exists.
C14_Original ==
    (construct.class \in RefinedTypeClasses /\ Refused)
        => /\ construct.invoked = <<construct.onError>>
           /\ construct.outcome = Raised([src |-> "handler",
                                          id |-> construct.onError.id,
                                          thrown |-> -1])
           /\ obj = NoObject

\* C14 as amended: when the guarantee fails, the supplied handler is called
\* once, before anything is stored; if it raises, its failure reaches the
\* caller and no object exists; a refined object holding a failing input
\* exists only when the handler returned and the guarantee did not throw
\* what it returned.
C14_GuaranteeEnforcedBeforeStore ==
    (construct.class \in RefinedTypeClasses /\ Refused)
        => /\ construct.invoked = <<construct.onError>>
           /\ construct.onError.kind = "raise"
                => /\ construct.outcome = Raised([src |-> "handler",
                                                  id |-> construct.onError.id,
                                                  thrown |-> -1])
                   /\ obj = NoObject
           /\ construct.outcome.kind = "raise" => obj = NoObject
           /\ obj # NoObject
                => /\ construct.onError.kind = "return"
                   /\ construct.mustBe.style = "call"
                   /\ obj.value = construct.input

C14_Witness ==
    /\ construct.class = "V1.RefinedNumber" /\ Refused
    /\ construct.mustBe.valid # {}
    /\ construct.onError.kind = "raise"
    /\ construct.invoked = <<construct.onError>>
    /\ construct.outcome.kind = "raise"
    /\ obj = NoObject

\* C15 as stated: after a construction whose guarantee passes, a refined
\* value object (a RefinedType subclass, V1 or v2) returns the input from
\* valueOf() and true from isValue().
C15_Original ==
    (obj.class \in RefinedTypeClasses /\ ~Refused)
        => /\ result.op = "valueOf" => result.val = construct.input
           /\ result.op = "isValue" => (~result.threw /\ result.flag = TRUE)

\* the decimal digits of a string, read back as a number
DigitValue(c) == CHOOSE d \in 0..9 : Digits[d + 1] = c
RECURSIVE DecimalValue(_)
DecimalValue(str) ==
    IF Len(str) = 0 THEN 0
    ELSE 10 * DecimalValue(SubSeq(str, 1, Len(str) - 1)) + DigitValue(str[Len(str)])

\* C16: [Symbol.toPrimitive]() of a wrapped number (RefinedNumber,
\* CoercedNumber) gives, with hint "string", the decimal string of the
\* wrapped number (digits only, no leading zero, reading back as the
\* number), and with any other hint the wrapped number itself.
C16_NumberToPrimitive ==
    (obj.class \in NumberClasses /\ result.op = "toPrimitive")
        => /\ ~result.threw
           /\ result.arg = "string"
                => /\ result.val.tag = "str"
                   /\ Len(result.val.s) >= 1
                   /\ \A i \in 1..Len(result.val.s) :
                         \E d \in 1..10 : Digits[d] = result.val.s[i]
                   /\ (Len(result.val.s) > 1 => result.val.s[1] # "0")
                   /\ DecimalValue(result.val.s) = obj.value.v
           /\ result.arg # "string"
                => result.val = Prim(obj.value.v)

C16_Witness ==
    /\ obj.class = "V1.CoercedNumber" /\ result.op = "toPrimitive"
    /\ result.arg = "string"
    /\ obj.value = Prim(AdultAge)
    /\ result.val = Str(<<"2", "1">>)

\* C17: for a wrapped string (RefinedString), `prefix + x` is the prefix
\* followed by the wrapped string, unchanged, and conversion with hint
\* "number" gives null, never a number.
C17_StringToPrimitive ==
    obj.class \in StringClasses
        => /\ result.op = "concat"
                => result.val = Str(ConcatPrefix \o made.s)
           /\ (result.op = "toPrimitive" /\ result.arg = "number")
                => result.val = Null

C17_Witness ==
    /\ obj.class = "V1.RefinedString"
    /\ result.op = "toPrimitive" /\ result.arg = "number"
    /\ made = Str(<<"1">>)
    /\ result.val = Null
    /\ nOther >= 2

\* C18: for every input that passes the guarantee, the constructor built by
\* makeRefinedTypeFactoryWithFormatter returns the formatter applied to the
\* input: the input itself for the identity, the input with every
\* upper-case character lowered and the others kept for the lower-casing
\* formatter.
C18_FormatterApplied ==
    (ctor.kind = "formatted" /\ Called /\ Passes)
        => /\ call.outcome.kind = "return"
           /\ call.outcome.value = ApplyFormatter(ctor.formatter, call.input)
           /\ ctor.formatter = "identity" => call.outcome.value = call.input
           /\ ctor.formatter = "toLocaleLowerCase"
                => /\ call.outcome.value.tag = "str"
                   /\ Len(call.outcome.value.s) = Len(call.input.s)
                   /\ \A i \in 1..Len(call.input.s) :
                         call.outcome.value.s[i] =
                             IF call.input.s[i] = "A" THEN "a" ELSE call.input.s[i]

C18_Witness ==
    /\ ctor.kind = "formatted" /\ Called /\ Passes
    /\ ctor.formatter = "toLocaleLowerCase"
    /\ ctor.mustBe.valid # {Str(t) : t \in Strings}
    /\ call.input = Str(<<"A", "1">>)
    /\ call.outcome.kind = "return"
    /\ call.outcome.value = Str(<<"a", "1">>)

C20_OverrideForOneCallOnly ==
    ctor.kind \in {"refined", "coerced"}
        => /\ ctor.defaultOnError = built.defaultOnError
           /\ ctor.mustBe = built.mustBe
           /\ (Called /\ ~Passes /\ call.onError = Undefined)
                => call.invoked = <<built.defaultOnError>>

C20_Witness ==
    /\ ctor.kind = "refined" /\ ctor.api = "V1"
    /\ overridden
    /\ Called /\ ~Passes /\ call.onError = Undefined
    /\ call.invoked = <<built.defaultOnError>>
    /\ call.outcome.kind = "raise"

\* the constructor as the factory first returned it
FreshCtor == makeRefinedTypeFactory(built.mustBe, built.defaultOnError, ctor.marker)

\* C21: after a call that ended with a raised failure the constructor is
\* what it was: a later call with a passing input returns that input
\* without invoking a handler, a later call with a failing input invokes
\* the handler again, and every later call ends as it would on the
\* constructor the factory first returned.
C21_FailedCallLeavesCtorUnchanged ==
    (ctor.kind = "refined" /\ failedBefore /\ Called)
        => /\ ctor = FreshCtor
           /\ Passes => (call.outcome = Returned(call.input) /\ call.invoked = <<>>)
           /\ ~Passes
                => call.invoked = <<EffectiveOnError(call.onError, built.defaultOnError)>>
           /\ call = CallRecord(call.input, call.onError,
                                RefinedTypeFactory(FreshCtor, call.input, call.onError))

C21_Witness ==
    /\ ctor.kind = "refined" /\ failedBefore /\ Called
    /\ Passes
    /\ ctor.mustBe.valid # Values
    /\ call.outcome = Returned(call.input)
    /\ call.invoked = <<>>

\* C22: each call of a constructor built by makeRefinedTypeFactory or
\* makeCoercedTypeFactory calls the rule exactly once, whether it returns
\* or raises, and a handler at most once; nothing is tried again, and a
\* substitute the handler returned is returned as it is, also when it does
\* not pass the rule.
C22_RuleOnceHandlerAtMostOnce ==
    (ctor.kind \in {"refined", "coerced"} /\ Called)
        => /\ call.mustBeCalls = 1
           /\ Len(call.invoked) <= 1
           /\ (ctor.kind = "coerced" /\ ~Passes /\ CallHandler.kind = "return")
                => /\ call.outcome = Returned(CallHandler.sub)
                   /\ call.invoked = <<CallHandler>>

C22_Witness ==
    /\ ctor.kind = "coerced" /\ Called /\ ~Passes
    /\ CallHandler.kind = "return"
    /\ CallHandler.sub \notin ctor.mustBe.valid
    /\ call.mustBeCalls = 1
    /\ Len(call.invoked) = 1
    /\ call.outcome = Returned(CallHandler.sub)

\* C23: when the input passes the rule, the call invokes no handler at all:
\* neither the factory's default handler nor the override given to the
\* call.
C23_NoHandlerOnSuccess ==
    (ctor.kind \in {"refined", "coerced"} /\ Called /\ Passes)
        => /\ call.invoked = <<>>
           /\ call.outcome.kind = "return"

C23_Witness ==
    /\ ctor.kind = "refined" /\ ctor.api = "v2" /\ Called /\ Passes
    /\ call.onError # Undefined
    /\ call.onError.kind = "raise" /\ ctor.defaultOnError.kind = "raise"
    /\ call.onError # ctor.defaultOnError
    /\ ctor.mustBe.valid # Values
    /\ call.invoked = <<>>

\* the rule of the latest call returned normally: the input passes, or the
\* rule called a handler that returned and did not throw what it got
RuleReturnedNormally ==
    \/ Passes
    \/ CallHandler.kind = "return" /\ ctor.mustBe.style = "call"

\* C24 as stated: whenever the effective handler returns instead of raising,
\* the constructor built by makeRefinedTypeFactory returns the failing input
\* as a refined value.
C24_Original ==
    (ctor.kind = "refined" /\ Called /\ ~Passes /\ CallHandler.kind = "return")
        => call.outcome = Returned(call.input)

\* C24 as amended: the constructor built by makeRefinedTypeFactory returns
\* its input whenever the rule returns normally and returns nothing
\* otherwise; it decides nothing itself, so when the handler returns instead
\* of raising and the rule does not throw what the handler returned, the
\* failing input is returned as a refined value.
C24_RefinedDecidesNothing ==
    (ctor.kind = "refined" /\ Called)
        => /\ RuleReturnedNormally => call.outcome = Returned(call.input)
           /\ ~RuleReturnedNormally
                => (call.outcome.kind = "raise" /\ call.outcome.value = -1)
           /\ (~Passes /\ RuleReturnedNormally)
                => /\ call.outcome.kind = "return"
                   /\ call.outcome.value \notin ctor.mustBe.valid

C24_Witness ==
    /\ ctor.kind = "refined" /\ ctor.api = "V1" /\ Called
    /\ ~Passes
    /\ CallHandler.kind = "return"
    /\ ctor.mustBe.style = "call"
    /\ call.invoked = <<CallHandler>>
    /\ call.outcome = Returned(call.input)

\* C25: the constructor built by makeCoercedTypeFactory returns exactly
\* what the coercion rule returned for the call: the input, unchanged, when
\* the input passes, and what the rule returns after calling the handler
\* when it fails, whether or not that value passes the rule.
C25_CoercedReturnsRuleValue ==
    (ctor.kind = "coerced" /\ Called /\ call.outcome.kind = "return")
        => /\ call.outcome.value =
                  DataCoercion(ctor.mustBe, call.input, CallHandler).outcome.value
           /\ Passes => call.outcome.value = call.input
           /\ ~Passes => call.outcome.value = CallHandler.sub

C25_Witness ==
    /\ ctor.kind = "coerced" /\ Called /\ ~Passes
    /\ call.onError # Undefined
    /\ call.onError.kind = "return"
    /\ call.onError.sub # call.input
    /\ call.onError.sub \notin ctor.mustBe.valid
    /\ call.outcome.kind = "return"
    /\ call.outcome.value = call.onError.sub

\* C26: when the input fails the rule of a constructor built by
\* makeCoercedTypeFactory and the handler the call uses raises, the call
\* ends with the handler's failure and returns no value.
C26_CoercedHandlerFailure ==
    (ctor.kind = "coerced" /\ Called /\ ~Passes /\ CallHandler.kind = "raise")
        => /\ call.outcome.kind = "raise"
           /\ call.outcome.value = -1
           /\ call.outcome.failure =
                  [src |-> "handler", id |-> CallHandler.id, thrown |-> -1]

C26_Witness ==
    /\ ctor.kind = "coerced" /\ Called /\ ~Passes
    /\ call.onError # Undefined
    /\ call.onError.kind = "raise"
    /\ call.onError.id # ctor.defaultOnError.id
    /\ call.outcome = Raised([src |-> "handler", id |-> call.onError.id, thrown |-> -1])

BaseClasses == {"ValueObject", "EntityObject"}

\* C27: `new` of a ValueObject or an EntityObject succeeds for every input,
\* null included, runs no rule and no error handler, and stores the input
\* as it was given.
C27_BaseConstructorsValidateNothing ==
    /\ (result.op = "new" /\ construct = NoConstruct) => obj.class \in BaseClasses
    /\ obj.class \in BaseClasses
          => /\ obj.value = made
             /\ construct = NoConstruct
             /\ construct.invoked = <<>>

C27_Witness ==
    /\ result.op = "new"
    /\ obj.class = "ValueObject"
    /\ made = Null
    /\ obj.value = Null
    /\ construct = NoConstruct

\* the class of the other API version wrapping the same type
OtherVersion(class) ==
    IF class = "V1.RefinedNumber" THEN "v2.RefinedNumber"
    ELSE IF class = "v2.RefinedNumber" THEN "V1.RefinedNumber"
    ELSE IF class = "V1.RefinedString" THEN "v2.RefinedString"
    ELSE "V1.RefinedString"

\* the construction of the latest `new`, as the V1 and as the v2 RefinedType
\* run it
AsV1 ==
    RefinedTypeNew(IF construct.class \in RefinedClassesV1 THEN construct.class
                   ELSE OtherVersion(construct.class),
                   construct.input, construct.mustBe, construct.onError)
AsV2 ==
    RefinedTypeNewV2(IF construct.class \in RefinedClassesV2 THEN construct.class
                     ELSE OtherVersion(construct.class),
                     construct.input, construct.mustBe, construct.onError)

\* C28 as stated: for the same input, guarantee and handler, either both
\* the V1 and the v2 RefinedType construction raise the handler's failure or
\* both give an object whose valueOf() is the input.
C28_Original ==
    construct.class \in RefinedTypeClasses
        => \/ /\ AsV1.outcome = InvokeHandler(construct.onError)
              /\ AsV2.outcome = InvokeHandler(construct.onError)
              /\ AsV1.outcome.kind = "raise"
           \/ /\ AsV1.object # NoObject /\ AsV2.object # NoObject
              /\ DispatchValueOf(AsV1.object) = construct.input
              /\ DispatchValueOf(AsV2.object) = construct.input

\* C28 as amended: for the same input, guarantee and handler the V1 and the
\* v2 RefinedType constructors end alike: both raise the same failure (the
\* handler's own, or what the handler returned when the guarantee throws
\* it), or both give an object whose valueOf() is the input; the `new`
\* that ran ended as both say.
C28_V1AndV2AgreeOnConstruction ==
    construct.class \in RefinedTypeClasses
        => /\ AsV1.outcome = AsV2.outcome
           /\ AsV1.invoked = AsV2.invoked
           /\ (AsV1.object = NoObject) = (AsV2.object = NoObject)
           /\ AsV1.outcome.kind = "raise"
                => /\ AsV1.object = NoObject
                   /\ construct.onError.kind = "raise"
                        => AsV2.outcome.failure =
                               [src |-> "handler", id |-> construct.onError.id,
                                thrown |-> -1]
           /\ AsV1.object # NoObject
                => /\ DispatchValueOf(AsV1.object) = construct.input
                   /\ DispatchValueOf(AsV2.object) = construct.input
           /\ construct.outcome = AsV1.outcome
           /\ (obj = NoObject) = (AsV2.object = NoObject)
           /\ result.op = "valueOf" => result.val = construct.input

C28_Witness ==
    /\ construct.class = "v2.RefinedNumber"
    /\ Refused
    /\ construct.onError.kind = "raise"
    /\ construct.outcome.kind = "raise"
    /\ obj = NoObject
    /\ AsV1.outcome = construct.outcome
    /\ AsV1.object = NoObject

====
